---- MODULE Spec2Model ----
(***************************************************************************)
(* The candidate scoring engine of the AI HR Decision Platform             *)
(* (src/main.py, POST /score-candidates and /bias-score-candidates), the   *)
(* handlers that return the JSON of the external model, and the page that  *)
(* sends the scoring request.                                              *)
(*                                                                         *)
(* Numbers.  The weights are the floats 0.35, 0.15, ... of WEIGHTS; the    *)
(* model holds them in hundredths (35, 15, ...) and computes the two       *)
(* round(...) calls in exact rational arithmetic with Python's             *)
(* round-half-to-even.  For integer ratings the float expression           *)
(* round(sum(r * w * 20)) and the exact one agree (the float error is far  *)
(* below 1/2 and the exact value is never a half).                         *)
(*                                                                         *)
(* Dictionaries are functions whose DOMAIN is the set of keys present, so  *)
(* a missing key is a key outside the DOMAIN, as in dict.get(key, default).*)
(*                                                                         *)
(* Text of the external model is a sequence of characters, each a          *)
(* one-character string; the backquote is written Tick.                    *)
(*                                                                         *)
(* The Score Candidates page (src/app.py) is a script that runs from top   *)
(* to bottom at every interaction; `page` holds the values of its widgets  *)
(* and what the run showed.                                                *)
(***************************************************************************)
EXTENDS Integers, Sequences, FiniteSets, TLC

VARIABLES
  WEIGHTS,    \* the module-level table of weight profiles
  request,    \* the ScoringRequest being handled
  response,   \* what the handler returned for it
  pc,         \* "received": request waits for its handler; "responded"
  log,        \* the calls answered so far: handler, request, model outcome, response
  frames,     \* the invocations running side by side, each with its locals
  page        \* the Score Candidates page: its widgets and what it shows

vars == <<WEIGHTS, request, response, pc, log, frames, page>>

-----------------------------------------------------------------------------
(* Bounds of the model *)

\* longest candidate list of a request
MaxCandidates == 2

\* most calls one client makes in a row
MaxCalls == 3

\* invocations of the handlers running at the same time
NumInvocations == 2

\* how far outside [MinRating, MaxRating] a submitted rating may lie
Excess == 1

-----------------------------------------------------------------------------
(* Program constants *)

\* the sliders of the page and the data model: ratings are 1..5
MinRating == 1
MaxRating == 5

\* candidate.get(attr, 3)
DefaultRating == 3

\* the factor 20 of  scores[k] * weights[k] * 20
ScoreFactor == 20

\* the factor 15 of  (1 - filled/5) * 15
MarginSpan == 15

\* weights are held in hundredths: 0.35 is 35
WeightScale == 100

\* dict order of `scores`: the order the keys are written in the literal
AttrOrder == <<"skill_match", "culture_fit", "execution_speed",
               "cost_efficiency", "adaptability">>

Attrs == {AttrOrder[i] : i \in 1..Len(AttrOrder)}

\* WeightsTable with the technical skill_match weight entered as 0.30
WeightsTableSkewed ==
  [ technical   |-> [skill_match |-> 30, culture_fit |-> 15, execution_speed |-> 20,
                     cost_efficiency |-> 15, adaptability |-> 15],
    executive   |-> [skill_match |-> 20, culture_fit |-> 30, execution_speed |-> 15,
                     cost_efficiency |-> 15, adaptability |-> 20],
    operational |-> [skill_match |-> 30, culture_fit |-> 20, execution_speed |-> 25,
                     cost_efficiency |-> 15, adaptability |-> 10] ]

\* WeightsTable with the executive culture_fit weight entered as 0.35
WeightsTableOver ==
  [ technical   |-> [skill_match |-> 35, culture_fit |-> 15, execution_speed |-> 20,
                     cost_efficiency |-> 15, adaptability |-> 15],
    executive   |-> [skill_match |-> 20, culture_fit |-> 35, execution_speed |-> 15,
                     cost_efficiency |-> 15, adaptability |-> 20],
    operational |-> [skill_match |-> 30, culture_fit |-> 20, execution_speed |-> 25,
                     cost_efficiency |-> 15, adaptability |-> 10] ]

WeightsTable ==
  [ technical   |-> [skill_match |-> 35, culture_fit |-> 15, execution_speed |-> 20,
                     cost_efficiency |-> 15, adaptability |-> 15],
    executive   |-> [skill_match |-> 20, culture_fit |-> 30, execution_speed |-> 15,
                     cost_efficiency |-> 15, adaptability |-> 20],
    operational |-> [skill_match |-> 30, culture_fit |-> 20, execution_speed |-> 25,
                     cost_efficiency |-> 15, adaptability |-> 10] ]

-----------------------------------------------------------------------------
(* Python helpers *)

\* dict.get(key, default)
Get(d, key, default) == IF key \in DOMAIN d THEN d[key] ELSE default

\* round(num / den) for den > 0: nearest integer, halves to the even one
Round(num, den) ==
  LET q == num \div den
      r == num % den
  IN  IF 2 * r < den THEN q
      ELSE IF 2 * r > den THEN q + 1
      ELSE IF q % 2 = 0 THEN q ELSE q + 1

Digits == <<"0", "1", "2", "3", "4", "5", "6", "7", "8", "9">>

\* str(n) of an integer, as an f-string renders it
RECURSIVE IntToStr(_)
IntToStr(n) ==
  IF n < 0 THEN "-" \o IntToStr(0 - n)
  ELSE IF n < 10 THEN Digits[n + 1]
  ELSE IntToStr(n \div 10) \o Digits[(n % 10) + 1]

\* sum(f[k] for k in order)
RECURSIVE SumOver(_, _)
SumOver(order, f) ==
  IF order = <<>> THEN 0 ELSE f[Head(order)] + SumOver(Tail(order), f)

\* MaxKeyFrom keeping the last of equal keys instead of the first
RECURSIVE MaxKeyLastFrom(_, _, _)
MaxKeyLastFrom(order, f, best) ==
  IF order = <<>> THEN best
  ELSE MaxKeyLastFrom(Tail(order), f,
                      IF f[Head(order)] >= f[best] THEN Head(order) ELSE best)

\* max(scores, key=scores.get): the first key, in dict order, that no later
\* key beats strictly
RECURSIVE MaxKeyFrom(_, _, _)
MaxKeyFrom(order, f, best) ==
  IF order = <<>> THEN best
  ELSE MaxKeyFrom(Tail(order), f,
                  IF f[Head(order)] > f[best] THEN Head(order) ELSE best)

MaxKey(order, f) == MaxKeyFrom(Tail(order), f, Head(order))

\* MinKey written with max in place of min
MinKeyOfMax(order, f) == MaxKey(order, f)

\* MinKeyFrom keeping the last of equal keys instead of the first
RECURSIVE MinKeyLastFrom(_, _, _)
MinKeyLastFrom(order, f, best) ==
  IF order = <<>> THEN best
  ELSE MinKeyLastFrom(Tail(order), f,
                      IF f[Head(order)] <= f[best] THEN Head(order) ELSE best)

\* min(scores, key=scores.get)
RECURSIVE MinKeyFrom(_, _, _)
MinKeyFrom(order, f, best) ==
  IF order = <<>> THEN best
  ELSE MinKeyFrom(Tail(order), f,
                  IF f[Head(order)] < f[best] THEN Head(order) ELSE best)

MinKey(order, f) == MinKeyFrom(Tail(order), f, Head(order))

-----------------------------------------------------------------------------
(* Text *)

\* the backquote character
Tick == "BACKQUOTE"

\* the characters of a string that holds no backquote
Chars(s) == [i \in 1..Len(s) |-> SubSeq(s, i, i)]

\* the literal "```"
Fence == <<Tick, Tick, Tick>>

\* whitespace, as str.strip() and the JSON grammar see it
IsSpace(ch) == ch \in {" ", "\n", "\t", "\r"}

RECURSIVE LStrip(_)
LStrip(t) ==
  IF t = <<>> THEN <<>>
  ELSE IF IsSpace(Head(t)) THEN LStrip(Tail(t)) ELSE t

RECURSIVE RStrip(_)
RStrip(t) ==
  IF t = <<>> THEN <<>>
  ELSE IF IsSpace(t[Len(t)]) THEN RStrip(SubSeq(t, 1, Len(t) - 1)) ELSE t

\* text.strip()
Strip(t) == RStrip(LStrip(t))

\* text.startswith(prefix)
StartsWith(t, prefix) ==
  Len(t) >= Len(prefix) /\ SubSeq(t, 1, Len(prefix)) = prefix

\* the first index >= i at which sep occurs in t, 0 when there is none
RECURSIVE FindFrom(_, _, _)
FindFrom(t, sep, i) ==
  IF i + Len(sep) - 1 > Len(t) THEN 0
  ELSE IF SubSeq(t, i, i + Len(sep) - 1) = sep THEN i
  ELSE FindFrom(t, sep, i + 1)

\* text.split(sep): the pieces between the occurrences of sep
RECURSIVE Split(_, _)
Split(t, sep) ==
  LET i == FindFrom(t, sep, 1)
  IN  IF i = 0 THEN <<t>>
      ELSE <<SubSeq(t, 1, i - 1)>> \o Split(SubSeq(t, i + Len(sep), Len(t)), sep)

\* the lines  text = ....strip(); if text.startswith("```"): text =
\* text.split("```")[1]; if text.startswith("json"): text = text[4:]
Unfence(reply) ==
  LET text == Strip(reply)
  IN  IF StartsWith(text, Fence)
      THEN LET inner == Split(text, Fence)[2]
           IN  IF StartsWith(inner, Chars("json"))
               THEN SubSeq(inner, 5, Len(inner))
               ELSE inner
      ELSE text

\* the JSON documents of the model and the values json.loads gives them
JsonDocuments ==
  (Chars("{\"scoring_bias_risk\": \"low\"}") :> [scoring_bias_risk |-> "low"])
  @@ (Chars("{}") :> [k \in {} |-> ""])

\* json.loads(text): the value, or ok = FALSE where it raises
json_loads(text) ==
  LET doc == Strip(text)
  IN  IF doc \in DOMAIN JsonDocuments
      THEN [ok |-> TRUE, value |-> JsonDocuments[doc]]
      ELSE [ok |-> FALSE]

-----------------------------------------------------------------------------
(* POST /score-candidates *)

\* ResolveWeights falling back to the operational profile
ResolveOrOperational(table, role_type) ==
  IF role_type \in DOMAIN table THEN table[role_type] ELSE table["operational"]

\* WEIGHTS.get(request.role_type, WEIGHTS["technical"])
ResolveWeights(table, role_type) ==
  IF role_type \in DOMAIN table THEN table[role_type] ELSE table["technical"]

\* Scores with the lowest rating as the default of a missing key
ScoresDefaultMin(candidate) ==
  [k \in Attrs |-> Get(candidate, k, MinRating)]

\* the dict `scores` of one candidate: each rating, 3 where the key is missing
Scores(candidate) ==
  [k \in Attrs |-> Get(candidate, k, DefaultRating)]

\* Filled counting only the ratings above 3
FilledAboveDefault(scores) == Cardinality({k \in Attrs : scores[k] > DefaultRating})

\* sum(1 for v in scores.values() if v != 3)
Filled(scores) == Cardinality({k \in Attrs : scores[k] # DefaultRating})

\* Total rounded to the nearest multiple of 5
TotalToFive(scores, weights) ==
  5 * Round(SumOver(AttrOrder, [k \in Attrs |-> scores[k] * weights[k] * ScoreFactor]),
            5 * WeightScale)

\* Total with the factor 25 in place of 20
TotalFactor25(scores, weights) ==
  Round(SumOver(AttrOrder, [k \in Attrs |-> scores[k] * weights[k] * 25]),
        WeightScale)

\* round(sum(scores[k] * weights[k] * 20 for k in scores))
Total(scores, weights) ==
  Round(SumOver(AttrOrder, [k \in Attrs |-> scores[k] * weights[k] * ScoreFactor]),
        WeightScale)

\* Margin growing with filled: round((filled/5) * 15)
MarginOfFilled(filled) ==
  Round(filled * MarginSpan, Len(AttrOrder))

\* round((1 - filled/5) * 15)
Margin(filled) ==
  Round((Len(AttrOrder) - filled) * MarginSpan, Len(AttrOrder))

\* f"± {margin}"
Confidence(margin) == "± " \o IntToStr(margin)

\* ScoredEntry with the empty string as the name of a candidate without one
ScoredEntryBlankName(candidate, weights, role_type) ==
  LET scores == Scores(candidate)
  IN  [ name         |-> Get(candidate, "name", ""),
        score        |-> Total(scores, weights),
        confidence   |-> Confidence(Margin(Filled(scores))),
        top_strength |-> MaxKey(AttrOrder, scores),
        top_risk     |-> MinKey(AttrOrder, scores),
        role_type    |-> role_type ]

\* the dict appended to `scored` for one candidate
ScoredEntry(candidate, weights, role_type) ==
  LET scores == Scores(candidate)
  IN  [ name         |-> Get(candidate, "name", "Unknown"),
        score        |-> Total(scores, weights),
        confidence   |-> Confidence(Margin(Filled(scores))),
        top_strength |-> MaxKey(AttrOrder, scores),
        top_risk     |-> MinKey(AttrOrder, scores),
        role_type    |-> role_type ]

\* ScoreAll skipping the candidates that have no name or an empty one
RECURSIVE ScoreNamedOnly(_, _, _)
ScoreNamedOnly(candidates, weights, role_type) ==
  IF candidates = <<>> THEN <<>>
  ELSE (IF Get(Head(candidates), "name", "") = "" THEN <<>>
        ELSE <<ScoredEntry(Head(candidates), weights, role_type)>>)
       \o ScoreNamedOnly(Tail(candidates), weights, role_type)

\* ScoreAll with one `scores` dict kept across the iterations: a rating a
\* candidate omits is the one the candidate before it had
RECURSIVE ScoreCarryFrom(_, _, _, _)
ScoreCarryFrom(candidates, weights, role_type, prev) ==
  IF candidates = <<>> THEN <<>>
  ELSE LET c    == Head(candidates)
           full == [k \in DOMAIN c \cup Attrs |->
                      IF k \in DOMAIN c THEN c[k] ELSE prev[k]]
       IN  <<ScoredEntry(full, weights, role_type)>>
           \o ScoreCarryFrom(Tail(candidates), weights, role_type, Scores(full))

ScoreAllCarry(candidates, weights, role_type) ==
  ScoreCarryFrom(candidates, weights, role_type, [k \in Attrs |-> DefaultRating])

\* the for loop: one entry per candidate, in input order
RECURSIVE ScoreAll(_, _, _)
ScoreAll(candidates, weights, role_type) ==
  IF candidates = <<>> THEN <<>>
  ELSE <<ScoredEntry(Head(candidates), weights, role_type)>>
       \o ScoreAll(Tail(candidates), weights, role_type)

\* InsertByScore for a sort that is not stable: e goes before its equals
RECURSIVE InsertBeforeTies(_, _)
InsertBeforeTies(sorted, e) ==
  IF sorted = <<>> THEN <<e>>
  ELSE IF Head(sorted).score > e.score
       THEN <<Head(sorted)>> \o InsertBeforeTies(Tail(sorted), e)
       ELSE <<e>> \o sorted

\* where list.sort(key=score, reverse=True) puts e in an already sorted list:
\* behind every entry whose score is at least e's (the sort is stable)
RECURSIVE InsertByScore(_, _)
InsertByScore(sorted, e) ==
  IF sorted = <<>> THEN <<e>>
  ELSE IF Head(sorted).score >= e.score
       THEN <<Head(sorted)>> \o InsertByScore(Tail(sorted), e)
       ELSE <<e>> \o sorted

\* scored.sort(key=lambda x: x["score"], reverse=True)
RECURSIVE SortByScore(_, _)
SortByScore(sorted, rest) ==
  IF rest = <<>> THEN sorted
  ELSE SortByScore(InsertByScore(sorted, Head(rest)), Tail(rest))

\* score_candidates reporting the name of the profile it resolved instead of
\* the role_type it was sent
score_candidates_resolved(table, req) ==
  LET role    == IF req.role_type \in DOMAIN table THEN req.role_type ELSE "technical"
      weights == ResolveWeights(table, req.role_type)
      scored  == ScoreAll(req.candidates, weights, req.role_type)
  IN  [ kind         |-> "ok",
        ranking      |-> SortByScore(<<>>, scored),
        weights_used |-> weights,
        role_type    |-> role ]

\* the value score_candidates returns
score_candidates(table, req) ==
  LET weights == ResolveWeights(table, req.role_type)
      scored  == ScoreAll(req.candidates, weights, req.role_type)
  IN  [ kind         |-> "ok",
        ranking      |-> SortByScore(<<>>, scored),
        weights_used |-> weights,
        role_type    |-> req.role_type ]

-----------------------------------------------------------------------------
(* POST /bias-score-candidates *)

\* the dict appended to `scored` for one candidate: that of score_candidates
\* and raw_scores
BiasScoredEntry(candidate, weights, role_type) ==
  LET scores == Scores(candidate)
  IN  [ name         |-> Get(candidate, "name", "Unknown"),
        score        |-> Total(scores, weights),
        confidence   |-> Confidence(Margin(Filled(scores))),
        top_strength |-> MaxKey(AttrOrder, scores),
        top_risk     |-> MinKey(AttrOrder, scores),
        role_type    |-> role_type,
        raw_scores   |-> scores ]

\* the for loop of bias_score_candidates
RECURSIVE BiasScoreAll(_, _, _)
BiasScoreAll(candidates, weights, role_type) ==
  IF candidates = <<>> THEN <<>>
  ELSE <<BiasScoredEntry(Head(candidates), weights, role_type)>>
       \o BiasScoreAll(Tail(candidates), weights, role_type)

\* the try/except around json.loads(text)
BiasCheck(reply) ==
  LET text   == Unfence(reply)
      parsed == json_loads(text)
  IN  IF parsed.ok THEN parsed.value
      ELSE [error |-> "Could not parse bias check", raw |-> text]

\* bias_score_candidates leaving `scored` in input order
bias_score_candidates_unsorted(table, req, reply) ==
  LET weights == ResolveWeights(table, req.role_type)
      scored  == BiasScoreAll(req.candidates, weights, req.role_type)
  IN  [ kind         |-> "ok",
        ranking      |-> scored,
        weights_used |-> weights,
        role_type    |-> req.role_type,
        bias_audit   |-> BiasCheck(reply) ]

\* the value bias_score_candidates returns when the external model replied
\* with the text `reply`
bias_score_candidates(table, req, reply) ==
  LET weights == ResolveWeights(table, req.role_type)
      scored  == BiasScoreAll(req.candidates, weights, req.role_type)
  IN  [ kind         |-> "ok",
        ranking      |-> SortByScore(<<>>, scored),
        weights_used |-> weights,
        role_type    |-> req.role_type,
        bias_audit   |-> BiasCheck(reply) ]

\* what client.messages.create can do: raise, or return a message with text
ModelReplies ==
  { Fence \o Chars("json\n{\"scoring_bias_risk\": \"low\"}\n") \o Fence,
    Chars("Looks fine.") }

ModelOutcomes ==
  {[kind |-> "raised"]} \cup {[kind |-> "text", text |-> t] : t \in ModelReplies}

\* no call of the external model
NoCall == [kind |-> "none"]

\* an exception leaving the handler: the framework answers 500
ServerError == [kind |-> "error"]

-----------------------------------------------------------------------------
(* Requests *)

\* role_type strings: the three profiles and one that is none of them
RoleInputs == {"technical", "executive", "operational", "intern"}

\* ratings a client may submit: the valid ones and Excess beyond each end
RatingInputs == (MinRating - Excess)..(MaxRating + Excess)

\* dicts with the given name (none when named = FALSE) and ratings
Dict(named, name, ratings) ==
  [k \in (IF named THEN {"name"} ELSE {}) \cup DOMAIN ratings |->
     IF k = "name" THEN name ELSE ratings[k]]

\* every way to rate some of the attributes `keys` with values of `vals`
PartialRatings(keys, vals) == UNION {[S -> vals] : S \in SUBSET keys}

\* candidates of the list requests: any name or none; culture_fit and
\* adaptability rated at an end of the scale or left out
ListCandidates ==
  {Dict(n.named, n.name, r) :
     n \in {[named |-> FALSE, name |-> ""], [named |-> TRUE, name |-> ""],
            [named |-> TRUE, name |-> "A"], [named |-> TRUE, name |-> "B"]},
     r \in PartialRatings({"culture_fit", "adaptability"}, {MinRating, MaxRating})}

\* candidates of the single-candidate requests: every attribute rated with
\* any submitted value or left out
SingleCandidates ==
  {Dict(TRUE, "A", r) : r \in PartialRatings(Attrs, RatingInputs)}

\* candidates of the requests with valid ratings: every attribute rated in
\* [MinRating, MaxRating] or left out
ValidCandidates ==
  {Dict(TRUE, "A", r) : r \in PartialRatings(Attrs, MinRating..MaxRating)}

NoResponse == [kind |-> "none"]

\* the page is not open
NoPage == [kind |-> "none"]

\* candidate lists of a client that calls several times
CallLists ==
  { <<>>,
    <<[name |-> "A"], [name |-> "B", culture_fit |-> 5]>>,
    <<[adaptability |-> 5], [name |-> "B", culture_fit |-> 5]>> }

CallRequests ==
  {[candidates |-> cs, role_type |-> role] :
     cs \in CallLists, role \in {"executive", "intern"}}

TypeOK ==
  /\ pc \in {"received", "responded", "idle", "form", "filled", "shown"}
  /\ WEIGHTS = WeightsTable
  /\ Len(log) <= MaxCalls

Init ==
  /\ WEIGHTS = WeightsTable
  /\ \E n \in 0..MaxCandidates :
       \E cs \in [1..n -> ListCandidates], role \in RoleInputs :
         request = [candidates |-> cs, role_type |-> role]
  /\ response = NoResponse
  /\ pc = "received"
  /\ log = <<>>
  /\ frames = <<>>
  /\ page = NoPage

InitOne ==
  /\ WEIGHTS = WeightsTable
  /\ \E c \in SingleCandidates, role \in RoleInputs :
       request = [candidates |-> <<c>>, role_type |-> role]
  /\ response = NoResponse
  /\ pc = "received"
  /\ log = <<>>
  /\ frames = <<>>
  /\ page = NoPage

InitValid ==
  /\ WEIGHTS = WeightsTable
  /\ \E c \in ValidCandidates, role \in RoleInputs :
       request = [candidates |-> <<c>>, role_type |-> role]
  /\ response = NoResponse
  /\ pc = "received"
  /\ log = <<>>
  /\ frames = <<>>
  /\ page = NoPage

\* a client about to make its first call
InitCalls ==
  /\ WEIGHTS = WeightsTable
  /\ request \in CallRequests
  /\ response = NoResponse
  /\ pc = "received"
  /\ log = <<>>
  /\ frames = <<>>
  /\ page = NoPage

\* the entry of `log` for a call
Call(handler, req, outcome, resp) ==
  [handler |-> handler, request |-> req, outcome |-> outcome, response |-> resp]

\* ScoreCandidates with `scored` a module-level list that is never cleared:
\* the entries of the call before are still in it
ScoreCandidatesAccumulating ==
  /\ pc = "received"
  /\ LET fresh == score_candidates(WEIGHTS, request)
         kept  == IF log # <<>> /\ log[Len(log)].response.kind = "ok"
                  THEN log[Len(log)].response.ranking ELSE <<>>
     IN  response' = [fresh EXCEPT !.ranking = SortByScore(kept, fresh.ranking)]
  /\ pc' = "responded"
  /\ log' = Append(log, Call("score_candidates", request, NoCall, response'))
  /\ UNCHANGED <<WEIGHTS, request, frames, page>>

\* the handler of POST /score-candidates answers the request
ScoreCandidates ==
  /\ pc = "received"
  /\ response' = score_candidates(WEIGHTS, request)
  /\ pc' = "responded"
  /\ log' = Append(log, Call("score_candidates", request, NoCall, response'))
  /\ UNCHANGED <<WEIGHTS, request, frames, page>>

\* BiasScoreCandidates storing the profile it resolved under the role_type
\* of the request: WEIGHTS.setdefault(role_type, WEIGHTS["technical"])
BiasScoreCandidatesCaching ==
  /\ pc = "received"
  /\ \E outcome \in ModelOutcomes :
       /\ response' = IF outcome.kind = "raised" THEN ServerError
                      ELSE bias_score_candidates(WEIGHTS, request, outcome.text)
       /\ log' = Append(log, Call("bias_score_candidates", request, outcome, response'))
  /\ pc' = "responded"
  /\ WEIGHTS' = [role \in DOMAIN WEIGHTS \cup {request.role_type} |->
                   ResolveWeights(WEIGHTS, role)]
  /\ UNCHANGED <<request, frames, page>>

\* the handler of POST /bias-score-candidates answers the request: it scores
\* and sorts, calls the external model, and returns; an exception of the call
\* leaves the handler
BiasScoreCandidates ==
  /\ pc = "received"
  /\ \E outcome \in ModelOutcomes :
       /\ response' = IF outcome.kind = "raised" THEN ServerError
                      ELSE bias_score_candidates(WEIGHTS, request, outcome.text)
       /\ log' = Append(log, Call("bias_score_candidates", request, outcome, response'))
  /\ pc' = "responded"
  /\ UNCHANGED <<WEIGHTS, request, frames, page>>

\* the client sends its next request
NewRequest ==
  /\ pc = "responded"
  /\ Len(log) < MaxCalls
  /\ request' \in CallRequests
  /\ response' = NoResponse
  /\ pc' = "received"
  /\ UNCHANGED <<WEIGHTS, log, frames, page>>

Next == ScoreCandidates

Spec == Init /\ [][Next]_vars

SpecOne == InitOne /\ [][Next]_vars

SpecValid == InitValid /\ [][Next]_vars

NextCalls == ScoreCandidates \/ BiasScoreCandidates \/ NewRequest

SpecCalls == InitCalls /\ [][NextCalls]_vars

-----------------------------------------------------------------------------
(* Concurrent invocations.  The handlers are plain `def` functions, which  *)
(* the framework runs in a thread pool: the statements of two invocations  *)
(* interleave.  Each frame holds the locals of one invocation; `weights`   *)
(* is a reference to a profile dict of WEIGHTS (its key), read again in    *)
(* every iteration of the loop.                                            *)

Invocations == 1..NumInvocations

\* requests of the concurrent invocations
ConcRequests ==
  { [candidates |-> <<[name |-> "A"], [name |-> "B", culture_fit |-> 5]>>,
     role_type |-> "executive"],
    [candidates |-> <<[adaptability |-> 5], [name |-> "B", culture_fit |-> 5]>>,
     role_type |-> "intern"] }

Handlers == {"score_candidates", "bias_score_candidates"}

\* the locals of an invocation that has not run a statement yet; `overlap`
\* records that another invocation was under way at one of its steps
NewFrame(handler, req) ==
  [ handler |-> handler, req |-> req, pc |-> "start", weights |-> "technical",
    scored |-> <<>>, i |-> 1, outcome |-> NoCall, bias_check |-> <<>>,
    result |-> NoResponse, overlap |-> FALSE ]

InitConc ==
  /\ WEIGHTS = WeightsTable
  /\ request = [candidates |-> <<>>, role_type |-> "technical"]
  /\ response = NoResponse
  /\ pc = "idle"
  /\ log = <<>>
  /\ frames \in [Invocations -> {NewFrame(h, r) : h \in Handlers, r \in ConcRequests}]
  /\ page = NoPage

\* ScoredOwner with `scored` a module-level list: every invocation uses the
\* list of invocation 1
ScoredOwnerShared(p) == 1

\* the frame that holds the list `scored` of invocation p: `scored = []`
\* makes it a local of the invocation
ScoredOwner(p) == p

\* some other invocation is between its first statement and its return
OthersRunning(p) ==
  \E q \in Invocations \ {p} : frames[q].pc \notin {"start", "done"}

\* the dict the loop body of the handler appends
EntryOf(handler, candidate, weights, role_type) ==
  IF handler = "score_candidates"
  THEN ScoredEntry(candidate, weights, role_type)
  ELSE BiasScoredEntry(candidate, weights, role_type)

\* weights = WEIGHTS.get(request.role_type, WEIGHTS["technical"]); scored = []
StartStep(p) ==
  /\ frames[p].pc = "start"
  /\ frames' = [frames EXCEPT
       ![ScoredOwner(p)].scored = <<>>,
       ![p].weights = IF frames[p].req.role_type \in DOMAIN WEIGHTS
                      THEN frames[p].req.role_type ELSE "technical",
       ![p].i = 1,
       ![p].overlap = @ \/ OthersRunning(p),
       ![p].pc = "loop"]
  /\ UNCHANGED <<WEIGHTS, request, response, pc, log, page>>

\* one iteration of  for candidate in request.candidates, or its end
LoopStep(p) ==
  /\ frames[p].pc = "loop"
  /\ LET f == frames[p]
     IN  IF f.i <= Len(f.req.candidates)
         THEN frames' = [frames EXCEPT
                ![ScoredOwner(p)].scored =
                   Append(@, EntryOf(f.handler, f.req.candidates[f.i],
                                     WEIGHTS[f.weights], f.req.role_type)),
                ![p].i = @ + 1,
                ![p].overlap = @ \/ OthersRunning(p)]
         ELSE frames' = [frames EXCEPT
                ![p].overlap = @ \/ OthersRunning(p),
                ![p].pc = "sort"]
  /\ UNCHANGED <<WEIGHTS, request, response, pc, log, page>>

\* scored.sort(key=lambda x: x["score"], reverse=True)
SortStep(p) ==
  /\ frames[p].pc = "sort"
  /\ frames' = [frames EXCEPT
       ![ScoredOwner(p)].scored = SortByScore(<<>>, @),
       ![p].overlap = @ \/ OthersRunning(p),
       ![p].pc = IF frames[p].handler = "score_candidates" THEN "return" ELSE "call"]
  /\ UNCHANGED <<WEIGHTS, request, response, pc, log, page>>

\* message = client.messages.create(...): a reply, or an exception that
\* leaves the handler
CallModelStep(p) ==
  /\ frames[p].pc = "call"
  /\ \E outcome \in ModelOutcomes :
       frames' = [frames EXCEPT
         ![p].outcome = outcome,
         ![p].result = IF outcome.kind = "raised" THEN ServerError ELSE @,
         ![p].overlap = @ \/ OthersRunning(p),
         ![p].pc = IF outcome.kind = "raised" THEN "done" ELSE "parse"]
  /\ UNCHANGED <<WEIGHTS, request, response, pc, log, page>>

\* text = message.content[0].text.strip() ... bias_check = json.loads(text)
ParseStep(p) ==
  /\ frames[p].pc = "parse"
  /\ frames' = [frames EXCEPT
       ![p].bias_check = BiasCheck(frames[p].outcome.text),
       ![p].overlap = @ \/ OthersRunning(p),
       ![p].pc = "return"]
  /\ UNCHANGED <<WEIGHTS, request, response, pc, log, page>>

\* the return statement of the handler
ReturnStep(p) ==
  /\ frames[p].pc = "return"
  /\ LET f    == frames[p]
         body == [ kind         |-> "ok",
                   ranking      |-> frames[ScoredOwner(p)].scored,
                   weights_used |-> WEIGHTS[f.weights],
                   role_type    |-> f.req.role_type ]
     IN  frames' = [frames EXCEPT
           ![p].result = IF f.handler = "score_candidates" THEN body
                         ELSE [k \in DOMAIN body \cup {"bias_audit"} |->
                                 IF k = "bias_audit" THEN f.bias_check ELSE body[k]],
           ![p].overlap = @ \/ OthersRunning(p),
           ![p].pc = "done"]
  /\ UNCHANGED <<WEIGHTS, request, response, pc, log, page>>

NextConc ==
  \E p \in Invocations :
    \/ StartStep(p)
    \/ LoopStep(p)
    \/ SortStep(p)
    \/ CallModelStep(p)
    \/ ParseStep(p)
    \/ ReturnStep(p)

SpecConc == InitConc /\ [][NextConc]_vars

-----------------------------------------------------------------------------
(* POST /analyse-problem, /detect-bias and /audit-decisions: the handlers  *)
(* that send a prompt to the external model and return the JSON of its     *)
(* reply.  A request is its endpoint and its body; an Optional field that  *)
(* is None is a key the body does not have.                                *)

\* what the handler returned as the body of its answer
Returned(body) == [kind |-> "ok", body |-> body]

\* texts the external model may reply with: JSON bare or fenced, with and
\* without the json tag, a fence left open, a fence alone, text around the
\* fence, a tag without a fence, and prose
TextReplies ==
  ModelReplies
  \cup { Chars(" {}\n"),
         Fence \o Chars("\n{}\n") \o Fence,
         Fence \o Chars("json\nno\n") \o Fence,
         Fence \o Chars("json{}"),
         Fence,
         Fence \o Chars("{}") \o Fence \o Chars(" done"),
         Chars("Here: ") \o Fence \o Chars("{}") \o Fence,
         Chars("json{}"),
         Chars(" no\n") }

TextOutcomes ==
  {[kind |-> "raised"]} \cup {[kind |-> "text", text |-> t] : t \in TextReplies}

\* the lines from  text = message.content[0].text.strip()  to the end of
\* the try/except: the value of the JSON, or the error object with the text
ParseResponse(reply) ==
  LET text   == Unfence(reply)
      parsed == json_loads(text)
  IN  IF parsed.ok THEN parsed.value
      ELSE [error |-> "Could not parse response", raw |-> text]

\* Answer with the except clause missing: the exception of json.loads leaves
\* the handler
AnswerUncaught(outcome) ==
  IF outcome.kind = "raised" THEN ServerError
  ELSE IF json_loads(Unfence(outcome.text)).ok
       THEN Returned(ParseResponse(outcome.text))
       ELSE ServerError

\* what the handler answers once client.messages.create has raised or
\* returned a message
Answer(outcome) ==
  IF outcome.kind = "raised" THEN ServerError
  ELSE Returned(ParseResponse(outcome.text))

\* field texts of a BiasRequest: empty, blank, and one with words
FieldTexts == {<<>>, Chars(" "), Chars("young rockstar")}

BiasFields == {"job_description", "interview_notes", "decision_reasoning"}

\* if request.<field>:  the field is neither None nor empty
Given(body, field) == field \in DOMAIN body /\ body[field] # <<>>

\* the string `content` of detect_bias
Content(body) ==
  (IF Given(body, "job_description")
   THEN Chars("\n[JOB DESCRIPTION]\n") \o body["job_description"] ELSE <<>>)
  \o (IF Given(body, "interview_notes")
      THEN Chars("\n[INTERVIEW NOTES]\n") \o body["interview_notes"] ELSE <<>>)
  \o (IF Given(body, "decision_reasoning")
      THEN Chars("\n[DECISION REASONING]\n") \o body["decision_reasoning"] ELSE <<>>)

\* requests of the three endpoints
ProblemRequests ==
  {[endpoint |-> "/analyse-problem", body |-> [problem |-> p]] :
     p \in {<<>>, Chars("our tech lead resigned")}}

BiasRequests ==
  {[endpoint |-> "/detect-bias", body |-> b] :
     b \in UNION {[S -> FieldTexts] : S \in SUBSET BiasFields}}

AuditRequests ==
  {[endpoint |-> "/audit-decisions", body |-> [decisions |-> ds]] :
     ds \in { <<>>,
              <<[candidate |-> "A", decision |-> "REJECT"]>>,
              <<[candidate |-> "A", decision |-> "REJECT"],
                [candidate |-> "B", decision |-> "APPROVE"]>> }}

InitJson ==
  /\ WEIGHTS = WeightsTable
  /\ request \in ProblemRequests \cup BiasRequests \cup AuditRequests
  /\ response = NoResponse
  /\ pc = "received"
  /\ log = <<>>
  /\ frames = <<>>
  /\ page = NoPage

\* the handler of POST /analyse-problem: it calls the model whatever the
\* problem text is
AnalyseProblem ==
  /\ pc = "received"
  /\ request.endpoint = "/analyse-problem"
  /\ \E outcome \in TextOutcomes :
       /\ response' = Answer(outcome)
       /\ log' = Append(log, Call("analyse_problem", request, outcome, response'))
  /\ pc' = "responded"
  /\ UNCHANGED <<WEIGHTS, request, frames, page>>

\* DetectBias without the lines  if not content.strip(): return {"error": ...}
DetectBiasUnchecked ==
  /\ pc = "received"
  /\ request.endpoint = "/detect-bias"
  /\ \E outcome \in TextOutcomes :
       /\ response' = Answer(outcome)
       /\ log' = Append(log, Call("detect_bias", request, outcome, response'))
  /\ pc' = "responded"
  /\ UNCHANGED <<WEIGHTS, request, frames, page>>

\* the handler of POST /detect-bias: without content it returns the error
\* before the call of the model
DetectBias ==
  /\ pc = "received"
  /\ request.endpoint = "/detect-bias"
  /\ IF Strip(Content(request.body)) = <<>>
     THEN /\ response' = Returned([error |-> "No content provided."])
          /\ log' = Append(log, Call("detect_bias", request, NoCall, response'))
     ELSE \E outcome \in TextOutcomes :
            /\ response' = Answer(outcome)
            /\ log' = Append(log, Call("detect_bias", request, outcome, response'))
  /\ pc' = "responded"
  /\ UNCHANGED <<WEIGHTS, request, frames, page>>

\* the handler of POST /audit-decisions: without decisions it returns the
\* error before the call of the model
AuditDecisions ==
  /\ pc = "received"
  /\ request.endpoint = "/audit-decisions"
  /\ IF request.body.decisions = <<>>
     THEN /\ response' = Returned([error |-> "No decisions provided."])
          /\ log' = Append(log, Call("audit_decisions", request, NoCall, response'))
     ELSE \E outcome \in TextOutcomes :
            /\ response' = Answer(outcome)
            /\ log' = Append(log, Call("audit_decisions", request, outcome, response'))
  /\ pc' = "responded"
  /\ UNCHANGED <<WEIGHTS, request, frames, page>>

NextJson == AnalyseProblem \/ DetectBias \/ AuditDecisions

SpecJson == InitJson /\ [][NextJson]_vars

-----------------------------------------------------------------------------
(* The Score Candidates page (src/app.py).  The user fills the widgets,    *)
(* presses "Score All Candidates", and the run of the script that follows  *)
(* warns or posts the request to /bias-score-candidates and shows the      *)
(* answer.  The script keeps nothing of a run but session_state, so one    *)
(* press from any filling of the form stands for every press.              *)

\* st.number_input("How many candidates?", min_value=1, max_value=3, value=2)
MinPageCandidates == 1
MaxPageCandidates == 3
DefaultPageCandidates == 2

\* the options of st.selectbox("Role Type:", ...); the first is preselected
PageRoles == <<"technical", "executive", "operational">>

\* what a Name field may hold: nothing, or a name
PageNames == {"", "A", "B"}

\* a candidate block as the page first draws it: no name, every slider at 3
DefaultRow ==
  [ name |-> "", skill_match |-> DefaultRating, culture_fit |-> DefaultRating,
    execution_speed |-> DefaultRating, cost_efficiency |-> DefaultRating,
    adaptability |-> DefaultRating ]

\* candidate blocks as a user leaves them: any name; the Skill Match slider
\* anywhere on its scale, or all five sliders at one end of it
PageRows ==
  {[DefaultRow EXCEPT !.name = n, !.skill_match = v] :
     n \in PageNames, v \in MinRating..MaxRating}
  \cup {[k \in DOMAIN DefaultRow |-> IF k = "name" THEN n ELSE v] :
          n \in PageNames, v \in {MinRating, MaxRating}}

\* no request was posted
NoRequest == [kind |-> "none"]

\* Entered appending every block, named or not
RECURSIVE EnteredAll(_)
EnteredAll(rows) ==
  IF rows = <<>> THEN <<>>
  ELSE LET row == Head(rows)
       IN  <<[ name |-> row.name, skill_match |-> row.skill_match,
               culture_fit |-> row.culture_fit,
               execution_speed |-> row.execution_speed,
               cost_efficiency |-> row.cost_efficiency,
               adaptability |-> row.adaptability ]>>
           \o EnteredAll(Tail(rows))

\* the list `candidates` of a run: for each block in turn,  if name:
\* candidates.append({"name": name, "skill_match": skill, ...})
RECURSIVE Entered(_)
Entered(rows) ==
  IF rows = <<>> THEN <<>>
  ELSE LET row == Head(rows)
       IN  (IF row.name # ""
            THEN <<[ name |-> row.name, skill_match |-> row.skill_match,
                     culture_fit |-> row.culture_fit,
                     execution_speed |-> row.execution_speed,
                     cost_efficiency |-> row.cost_efficiency,
                     adaptability |-> row.adaptability ]>>
            ELSE <<>>)
           \o Entered(Tail(rows))

\* the page as it opens
InitPage ==
  /\ WEIGHTS = WeightsTable
  /\ request = NoRequest
  /\ response = NoResponse
  /\ pc = "form"
  /\ log = <<>>
  /\ frames = <<>>
  /\ page = [ role_type |-> PageRoles[1],
              num       |-> DefaultPageCandidates,
              rows      |-> [i \in 1..DefaultPageCandidates |-> DefaultRow],
              message   |-> "none",
              session   |-> NoResponse ]

\* the user picks the role, the number of candidates, and fills the blocks
FillForm ==
  /\ pc = "form"
  /\ \E i \in 1..Len(PageRoles), num \in MinPageCandidates..MaxPageCandidates :
       \E rows \in [1..num -> PageRows] :
         page' = [page EXCEPT !.role_type = PageRoles[i], !.num = num, !.rows = rows]
  /\ pc' = "filled"
  /\ UNCHANGED <<WEIGHTS, request, response, log, frames>>

\* if st.button("Score All Candidates"): warn when `candidates` is empty,
\* else post it with the role
PressScoreAll ==
  /\ pc = "filled"
  /\ LET candidates == Entered(page.rows)
     IN  IF candidates = <<>>
         THEN /\ page' = [page EXCEPT !.message = "warning"]
              /\ pc' = "shown"
              /\ UNCHANGED <<request, response>>
         ELSE /\ request' = [candidates |-> candidates, role_type |-> page.role_type]
              /\ response' = NoResponse
              /\ pc' = "received"
              /\ UNCHANGED page
  /\ UNCHANGED <<WEIGHTS, log, frames>>

\* requests.post raises (the server cannot be reached): except shows the error
PostFails ==
  /\ pc = "received"
  /\ page # NoPage
  /\ page' = [page EXCEPT !.message = "error"]
  /\ pc' = "shown"
  /\ UNCHANGED <<WEIGHTS, request, response, log, frames>>

\* result = r.json() and what follows: the ranking is shown and kept in
\* session_state; the body of a server error is no JSON, r.json() raises and
\* except shows the error
ShowResult ==
  /\ pc = "responded"
  /\ page # NoPage
  /\ page' = IF response.kind = "ok"
             THEN [page EXCEPT !.message = "ranking",
                               !.session = [scoring_result |-> response,
                                            candidates |-> request.candidates]]
             ELSE [page EXCEPT !.message = "error"]
  /\ pc' = "shown"
  /\ UNCHANGED <<WEIGHTS, request, response, log, frames>>

NextPage ==
  \/ FillForm
  \/ PressScoreAll
  \/ BiasScoreCandidates
  \/ PostFails
  \/ ShowResult

SpecPage == InitPage /\ [][NextPage]_vars

-----------------------------------------------------------------------------
(* Properties *)

Responded == pc = "responded"

\* the rating a candidate dict gives an attribute, 3 when it gives none
RatingOf(c, k) == IF k \in DOMAIN c THEN c[k] ELSE 3

\* every rating the dict gives lies in 1..5
ValidRatings(c) == \A k \in Attrs : RatingOf(c, k) \in 1..5

KnownRoles == {"technical", "executive", "operational"}

\* Under SpecOne and SpecValid the request holds one candidate and the
\* ranking its entry.
OnlyCandidate == request.candidates[1]
OnlyEntry == response.ranking[1]

\* C1: a candidate whose ratings are all integers in [1,5] gets, under any
\* role_type (known or not), a score that is an integer in [20,100].
C1_ScoreRange ==
  Responded /\ ValidRatings(OnlyCandidate) =>
    /\ Len(response.ranking) = 1
    /\ OnlyEntry.score \in 20..100

\* C1 witness: all five ratings 5 under an unknown role_type score 100.
C1_Witness ==
  /\ Responded
  /\ request.role_type = "intern"
  /\ \A k \in Attrs : k \in DOMAIN OnlyCandidate /\ OnlyCandidate[k] = 5
  /\ OnlyEntry.score = 100

\* bijections of 1..n
Perms(n) == {p \in [1..n -> 1..n] : \A i, j \in 1..n : p[i] = p[j] => i = j}

\* C2: the ranking is the scored input in descending order of score, and
\* entries of equal score keep the relative order of the input list.
C2_SortedStable ==
  Responded =>
    LET cs == request.candidates
        r  == response.ranking
    IN  /\ Len(r) = Len(cs)
        /\ \A i, j \in 1..Len(r) : i < j => r[i].score >= r[j].score
        /\ \E p \in Perms(Len(cs)) :
             /\ \A i \in 1..Len(r) :
                  r[i] = ScoredEntry(cs[p[i]], response.weights_used, request.role_type)
             /\ \A i, j \in 1..Len(r) :
                  i < j /\ r[i].score = r[j].score => p[i] < p[j]

\* C2 witness: A then B, both unrated, under operational come out as [A, B]
\* with score 60 each.
C2_Witness ==
  /\ Responded
  /\ request.role_type = "operational"
  /\ request.candidates = <<[name |-> "A"], [name |-> "B"]>>
  /\ Len(response.ranking) = 2
  /\ response.ranking[1].name = "A" /\ response.ranking[1].score = 60
  /\ response.ranking[2].name = "B" /\ response.ranking[2].score = 60

\* 20 * weight of each profile, in the order of AttrOrder
IntegerWeights ==
  [ technical   |-> <<7, 3, 4, 3, 3>>,
    executive   |-> <<4, 6, 3, 3, 4>>,
    operational |-> <<6, 4, 5, 3, 2>> ]

\* the profile a role_type resolves to
ResolvedRole(role_type) == IF role_type \in KnownRoles THEN role_type ELSE "technical"

\* sum of rating * (20 * weight) over the five attributes
IntegerScore(c, role_type) ==
  LET w == IntegerWeights[ResolvedRole(role_type)]
  IN  RatingOf(c, AttrOrder[1]) * w[1] + RatingOf(c, AttrOrder[2]) * w[2]
      + RatingOf(c, AttrOrder[3]) * w[3] + RatingOf(c, AttrOrder[4]) * w[4]
      + RatingOf(c, AttrOrder[5]) * w[5]

\* C3: the score is the integer sum of rating * (20 * weight) with the
\* weights 7,3,4,3,3 / 4,6,3,3,4 / 6,4,5,3,2 of the resolved profile, and the
\* value that is rounded is already an integer (round changes nothing).
C3_IntegerWeightedSum ==
  Responded =>
    /\ OnlyEntry.score = IntegerScore(OnlyCandidate, request.role_type)
    /\ \A k \in Attrs : (response.weights_used[k] * 20) % 100 = 0

\* C3 witness: ratings 5,1,4,2,3 under executive score 20+6+12+6+12 = 56.
C3_Witness ==
  /\ Responded
  /\ request.role_type = "executive"
  /\ OnlyCandidate = [name |-> "A", skill_match |-> 5, culture_fit |-> 1,
                      execution_speed |-> 4, cost_efficiency |-> 2, adaptability |-> 3]
  /\ OnlyEntry.score = 56

\* the candidate has a non-empty name
Named(c) == "name" \in DOMAIN c /\ c["name"] # ""

NamedCount(cs) == Cardinality({i \in 1..Len(cs) : Named(cs[i])})

\* the name an input entry is ranked under
RankedName(c) == IF "name" \in DOMAIN c THEN c["name"] ELSE "Unknown"

C5_NoCandidatesError ==
  Responded =>
    /\ NamedCount(request.candidates) = 0 => response.kind = "error"
    /\ response.kind = "ok" => response.ranking # <<>>

\* C6: a role_type that is none of the three profiles is answered without
\* error, each entry with the score the request gets under technical.
C6_UnknownRoleAsTechnical ==
  Responded /\ request.role_type \notin KnownRoles =>
    LET r == response.ranking
        t == score_candidates(WEIGHTS, [request EXCEPT !.role_type = "technical"]).ranking
    IN  /\ response.kind = "ok"
        /\ Len(r) = Len(t)
        /\ \A i \in 1..Len(r) : r[i].name = t[i].name /\ r[i].score = t[i].score

\* C6 witness: under "intern" a candidate rated 5 on culture_fit scores 66,
\* the technical score (72 under executive, 68 under operational).
C6_Witness ==
  /\ Responded
  /\ request.role_type = "intern"
  /\ request.candidates = <<[name |-> "A", culture_fit |-> 5]>>
  /\ response.ranking[1].score = 66

\* a rating moved into 1..5
Clamp(v) == IF v < 1 THEN 1 ELSE IF v > 5 THEN 5 ELSE v

Clamped(c) == [k \in DOMAIN c |-> IF k = "name" THEN c[k] ELSE Clamp(c[k])]

\* C7: a rating outside [1,5] is rejected with an error or scored as if it
\* were clamped into [1,5]; the score never leaves [20,100].
C7_ClampOrReject ==
  Responded =>
    \/ response.kind = "error"
    \/ /\ OnlyEntry.score = IntegerScore(Clamped(OnlyCandidate), request.role_type)
       /\ OnlyEntry.score \in 20..100

\* the confidence string for each count of attributes not rated 3
ConfidenceTable == <<"± 15", "± 12", "± 9", "± 6", "± 3", "± 0">>

\* the attributes the candidate rates with something other than 3
NonNeutral(c) == {k \in Attrs : RatingOf(c, k) # 3}

\* C8: with filled the number of attributes whose rating is not 3, the margin
\* is round((1 - filled/5) * 15) = 15 - 3 * filled, an integer in [0,15], 15
\* for an all-default candidate and 0 exactly when no attribute is rated 3;
\* the confidence is "± " followed by the margin.
C8_Margin ==
  Responded =>
    LET filled == Cardinality(NonNeutral(OnlyCandidate))
        margin == 15 - 3 * filled
    IN  /\ Margin(filled) = margin
        /\ margin \in 0..15
        /\ margin = 0 <=> \A k \in Attrs : RatingOf(OnlyCandidate, k) # 3
        /\ OnlyEntry.confidence = ConfidenceTable[filled + 1]
        /\ OnlyEntry.confidence = "± " \o ToString(margin)

\* C8 witness: four attributes rated away from 3 and one left out: "± 3".
C8_Witness ==
  /\ Responded
  /\ OnlyCandidate = [name |-> "A", skill_match |-> 4, culture_fit |-> 2,
                      execution_speed |-> 5, adaptability |-> 1]
  /\ OnlyEntry.confidence = "± 3"

\* the first attribute, in the fixed order, whose rating is v
FirstRated(c, v) ==
  AttrOrder[CHOOSE i \in 1..Len(AttrOrder) :
              /\ RatingOf(c, AttrOrder[i]) = v
              /\ \A j \in 1..(i - 1) : RatingOf(c, AttrOrder[j]) # v]

MaxRatingOf(c) ==
  CHOOSE v \in {RatingOf(c, k) : k \in Attrs} : \A k \in Attrs : RatingOf(c, k) <= v

MinRatingOf(c) ==
  CHOOSE v \in {RatingOf(c, k) : k \in Attrs} : \A k \in Attrs : RatingOf(c, k) >= v

\* C9: top_strength is the first attribute in the order skill_match,
\* culture_fit, execution_speed, cost_efficiency, adaptability whose rating is
\* the maximum of the five, top_risk the first whose rating is the minimum.
C9_FirstExtreme ==
  Responded =>
    /\ AttrOrder = <<"skill_match", "culture_fit", "execution_speed",
                     "cost_efficiency", "adaptability">>
    /\ OnlyEntry.top_strength = FirstRated(OnlyCandidate, MaxRatingOf(OnlyCandidate))
    /\ OnlyEntry.top_risk = FirstRated(OnlyCandidate, MinRatingOf(OnlyCandidate))

\* C9 witness: the maximum 5 is shared by culture_fit and execution_speed,
\* the minimum 1 by cost_efficiency and adaptability.
C9_Witness ==
  /\ Responded
  /\ OnlyCandidate = [name |-> "A", skill_match |-> 2, culture_fit |-> 5,
                      execution_speed |-> 5, cost_efficiency |-> 1, adaptability |-> 1]
  /\ OnlyEntry.top_strength = "culture_fit"
  /\ OnlyEntry.top_risk = "cost_efficiency"

\* the candidate with every attribute it omits set to 3
WithDefaults(c) ==
  [k \in DOMAIN c \cup Attrs |-> IF k \in DOMAIN c THEN c[k] ELSE 3]

\* C10: a candidate that omits attributes gets the score, margin,
\* top_strength and top_risk of the same candidate with each omitted
\* attribute set to 3.
C10_OmittedIsThree ==
  Responded =>
    LET e == ScoredEntry(WithDefaults(OnlyCandidate),
                         ResolveWeights(WEIGHTS, request.role_type), request.role_type)
    IN  /\ OnlyEntry.score = e.score
        /\ OnlyEntry.confidence = e.confidence
        /\ OnlyEntry.top_strength = e.top_strength
        /\ OnlyEntry.top_risk = e.top_risk

\* C10 witness: skill_match and adaptability rated, the other three left
\* out; under technical 4*7 + 3*3 + 3*4 + 3*3 + 2*3 = 64.
C10_Witness ==
  /\ Responded
  /\ request.role_type = "technical"
  /\ OnlyCandidate = [name |-> "A", skill_match |-> 4, adaptability |-> 2]
  /\ OnlyEntry.score = 64
  /\ OnlyEntry.confidence = "± 9"
  /\ OnlyEntry.top_strength = "skill_match"
  /\ OnlyEntry.top_risk = "adaptability"

\* C11: a candidate whose five ratings are all 3 gets margin 15 and score 60
\* under each of the three profiles and under an unknown role_type.
C11_AllNeutral ==
  Responded /\ (\A k \in Attrs : RatingOf(OnlyCandidate, k) = 3) =>
    /\ OnlyEntry.score = 60
    /\ OnlyEntry.confidence = "± 15"

\* C11 witness: five explicit 3s under the unknown role_type "intern".
C11_Witness ==
  /\ Responded
  /\ request.role_type = "intern"
  /\ OnlyCandidate = [name |-> "A", skill_match |-> 3, culture_fit |-> 3,
                      execution_speed |-> 3, cost_efficiency |-> 3, adaptability |-> 3]
  /\ OnlyEntry.score = 60
  /\ OnlyEntry.confidence = "± 15"

\* C12: a candidate whose five ratings all equal r in [1,5] scores 20 * r
\* under every profile, has margin 0 when r is not 3, and has skill_match as
\* both top_strength and top_risk.
C12_Uniform ==
  Responded =>
    \A r \in 1..5 :
      (\A k \in Attrs : RatingOf(OnlyCandidate, k) = r) =>
        /\ OnlyEntry.score = 20 * r
        /\ r # 3 => OnlyEntry.confidence = "± 0"
        /\ OnlyEntry.top_strength = "skill_match"
        /\ OnlyEntry.top_risk = "skill_match"

\* C12 witness: all 1s under executive score 20 with margin 0.
C12_Witness ==
  /\ Responded
  /\ request.role_type = "executive"
  /\ OnlyCandidate = [name |-> "A", skill_match |-> 1, culture_fit |-> 1,
                      execution_speed |-> 1, cost_efficiency |-> 1, adaptability |-> 1]
  /\ OnlyEntry.score = 20
  /\ OnlyEntry.confidence = "± 0"
  /\ OnlyEntry.top_risk = "skill_match"

\* the five weights of a profile, in hundredths, added up
WeightSum(profile) ==
  profile["skill_match"] + profile["culture_fit"] + profile["execution_speed"]
  + profile["cost_efficiency"] + profile["adaptability"]

\* C13: each of the three profiles weighs exactly the five attributes, every
\* weight is strictly positive, and the five weights sum to 1.0 (100
\* hundredths).
C13_ProfilesSumToOne ==
  /\ DOMAIN WEIGHTS = KnownRoles
  /\ \A role \in KnownRoles :
       /\ DOMAIN WEIGHTS[role] = Attrs
       /\ \A k \in Attrs : WEIGHTS[role][k] > 0
       /\ WeightSum(WEIGHTS[role]) = 100

\* C13 witness: a request answered with the operational profile, whose
\* weights 30, 20, 25, 15, 10 add up to 100.
C13_Witness ==
  /\ Responded
  /\ request.role_type = "operational"
  /\ response.weights_used = WEIGHTS["operational"]
  /\ WeightSum(response.weights_used) = 100

\* how often x occurs in the sequence
CountIn(seq, x) == Cardinality({i \in 1..Len(seq) : seq[i] = x})

\* the sequences hold the same elements, each as often
SameBag(s1, s2) ==
  /\ Len(s1) = Len(s2)
  /\ \A i \in 1..Len(s1) : CountIn(s1, s1[i]) = CountIn(s2, s1[i])

\* the candidate list with its entries in the order p
Permuted(cs, p) == [i \in 1..Len(cs) |-> cs[p[i]]]

\* the entry a candidate gets when the request holds it alone
ScoredAlone(c) ==
  score_candidates(WEIGHTS, [candidates |-> <<c>>, role_type |-> request.role_type]).ranking[1]

\* C15: the scored record of a candidate depends only on its own ratings and
\* the role_type: the ranking holds, for each input entry, the record it gets
\* when scored alone, and for every permutation of the input list the ranking
\* holds the same records as often, with the same score at every rank (only
\* equal-score entries may change places).
C15_OrderIndependent ==
  Responded =>
    LET cs == request.candidates
        r  == response.ranking
    IN  /\ SameBag(r, [i \in 1..Len(cs) |-> ScoredAlone(cs[i])])
        /\ \A p \in Perms(Len(cs)) :
             LET r2 == score_candidates(WEIGHTS,
                         [request EXCEPT !.candidates = Permuted(cs, p)]).ranking
             IN  /\ SameBag(r, r2)
                 /\ \A i \in 1..Len(r) : r[i].score = r2[i].score

\* C15 witness: A unrated (60) before B rated 5 on culture_fit (66): the
\* ranking is B, A, as it is for the input B, A.
C15_Witness ==
  /\ Responded
  /\ request.role_type = "technical"
  /\ request.candidates = <<[name |-> "A"], [name |-> "B", culture_fit |-> 5]>>
  /\ response.ranking[1].name = "B" /\ response.ranking[1].score = 66
  /\ response.ranking[2].name = "A" /\ response.ranking[2].score = 60

\* C18: the response carries the ranking, the profile used and the role
\* type: weights_used is the profile the role_type resolves to (technical
\* when it is unknown), and role_type, in the response and in every ranking
\* entry, is the string of the request, also after a fallback.
C18_ResponseShape ==
  Responded =>
    /\ DOMAIN response = {"kind", "ranking", "weights_used", "role_type"}
    /\ response.weights_used = WeightsTable[ResolvedRole(request.role_type)]
    /\ response.role_type = request.role_type
    /\ \A i \in 1..Len(response.ranking) :
         response.ranking[i].role_type = request.role_type

\* C18 witness: a request under "intern" is answered with the technical
\* profile and with role_type "intern" in the response and its entry.
C18_Witness ==
  /\ Responded
  /\ request.role_type = "intern"
  /\ Len(response.ranking) = 1
  /\ response.weights_used = WeightsTable["technical"]
  /\ response.role_type = "intern"
  /\ response.ranking[1].role_type = "intern"

\* the names the input entries are ranked under, in input order
RankedNames(cs) == [i \in 1..Len(cs) |-> RankedName(cs[i])]

\* the names of the ranking, in rank order
NamesOf(ranking) == [i \in 1..Len(ranking) |-> ranking[i].name]

\* C19: the ranking has exactly one entry per input entry: it is as long as
\* the input list and holds every input name as often as the input does, an
\* entry without a name key counting as "Unknown".
C19_OneEntryPerCandidate ==
  Responded =>
    SameBag(NamesOf(response.ranking), RankedNames(request.candidates))

\* C19 witness: two entries without a name key give two entries "Unknown".
C19_Witness ==
  /\ Responded
  /\ Len(request.candidates) = 2
  /\ \A i \in 1..2 : "name" \notin DOMAIN request.candidates[i]
  /\ NamesOf(response.ranking) = <<"Unknown", "Unknown">>

\* C14: two calls of score_candidates with the same candidate list and
\* role_type return identical responses, whatever scoring calls were made in
\* between.
C14_SameRequestSameResponse ==
  \A i, j \in 1..Len(log) :
    /\ log[i].handler = "score_candidates"
    /\ log[j].handler = "score_candidates"
    /\ log[i].request = log[j].request
    => log[i].response = log[j].response

\* C14 witness: the same two-candidate request scored first and third, with
\* a bias-scoring call of another request in between, answered alike.
C14_Witness ==
  /\ Len(log) = 3
  /\ log[1].handler = "score_candidates"
  /\ log[2].handler = "bias_score_candidates"
  /\ log[3].handler = "score_candidates"
  /\ log[1].request = log[3].request
  /\ log[2].request # log[1].request
  /\ log[2].response.kind = "ok"
  /\ Len(log[1].request.candidates) = 2
  /\ log[3].response = log[1].response
  /\ Len(log[3].response.ranking) = 2

\* C17: after any sequence of calls of score_candidates and
\* bias_score_candidates the WEIGHTS table holds its initial values for all
\* three profiles (and nothing else).
C17_WeightsImmutable ==
  /\ WEIGHTS = WeightsTable
  /\ \A i \in 1..Len(log) :
       log[i].response.kind = "ok" =>
         log[i].response.weights_used = WeightsTable[ResolvedRole(log[i].request.role_type)]

\* C17 witness: both handlers have been called, one of them with the unknown
\* role_type "intern", and WEIGHTS is the initial table.
C17_Witness ==
  /\ Len(log) = 3
  /\ \E i \in 1..3 : log[i].handler = "score_candidates"
                     /\ log[i].request.role_type = "intern"
  /\ \E i \in 1..3 : log[i].handler = "bias_score_candidates"
                     /\ log[i].response.kind = "ok"
  /\ WEIGHTS = WeightsTable

\* an entry of the bias-scoring ranking without its raw_scores
WithoutRawScores(entry) == [k \in DOMAIN entry \ {"raw_scores"} |-> entry[k]]

\* the ranking equals the plain one, entry by entry, apart from raw_scores
SameRanking(biased, plain) ==
  /\ Len(biased) = Len(plain)
  /\ \A j \in 1..Len(biased) :
       /\ DOMAIN biased[j] = DOMAIN plain[j] \cup {"raw_scores"}
       /\ WithoutRawScores(biased[j]) = plain[j]

\* the replies of the external model that are not JSON
NotJsonReplies == {Chars("Looks fine.")}

\* C20: whatever text the external model returns, bias_score_candidates
\* returns the ranking score_candidates returns for the same request (same
\* order, same name, score, confidence, top_strength, top_risk and role_type,
\* only raw_scores added); when the text is not valid JSON the ranking is
\* still returned and bias_audit is an error object.
C20_BiasRankingSame ==
  \A i \in 1..Len(log) :
    log[i].handler = "bias_score_candidates" /\ log[i].outcome.kind = "text" =>
      /\ log[i].response.kind = "ok"
      /\ SameRanking(log[i].response.ranking,
                     score_candidates(WEIGHTS, log[i].request).ranking)
      /\ \A j \in 1..Len(log) :
           log[j].handler = "score_candidates" /\ log[j].request = log[i].request =>
             SameRanking(log[i].response.ranking, log[j].response.ranking)
      /\ log[i].outcome.text \in NotJsonReplies =>
           /\ DOMAIN log[i].response.bias_audit = {"error", "raw"}
           /\ log[i].response.bias_audit["error"] = "Could not parse bias check"

\* C20 witness: the same request answered by both handlers, the unnamed
\* candidate (68 under executive) behind B (72) in both rankings although it
\* comes first in the input, with a reply of the model that is not JSON.
C20_Witness ==
  /\ Len(log) >= 2
  /\ log[1].handler = "score_candidates"
  /\ log[2].handler = "bias_score_candidates"
  /\ log[1].request = log[2].request
  /\ log[1].request.role_type = "executive"
  /\ log[1].request.candidates = <<[adaptability |-> 5], [name |-> "B", culture_fit |-> 5]>>
  /\ log[2].outcome.kind = "text"
  /\ log[2].outcome.text \in NotJsonReplies
  /\ NamesOf(log[1].response.ranking) = <<"B", "Unknown">>
  /\ NamesOf(log[2].response.ranking) = <<"B", "Unknown">>
  /\ log[2].response.ranking[1].raw_scores["culture_fit"] = 5
  /\ "error" \in DOMAIN log[2].response.bias_audit

\* the response the invocation gets when it runs with no other beside it
Alone(f) ==
  IF f.handler = "score_candidates" THEN score_candidates(WeightsTable, f.req)
  ELSE IF f.outcome.kind = "raised" THEN ServerError
  ELSE bias_score_candidates(WeightsTable, f.req, f.outcome.text)

\* C16: under every interleaving of the steps of concurrent invocations of
\* score_candidates and bias_score_candidates, each returns the response it
\* returns when executed alone; the list an invocation builds holds entries
\* of its own candidates only, and the one shared object, WEIGHTS, is never
\* written.
C16_ConcurrentAsAlone ==
  /\ WEIGHTS = WeightsTable
  /\ \A p \in Invocations :
       LET f == frames[p]
       IN  /\ f.pc = "done" => f.result = Alone(f)
           /\ \A j \in 1..Len(f.scored) :
                \E i \in 1..Len(f.req.candidates) :
                  f.scored[j] = EntryOf(f.handler, f.req.candidates[i],
                                        WeightsTable[ResolvedRole(f.req.role_type)],
                                        f.req.role_type)

\* C16 witness: two invocations with different requests, one of each
\* handler, have both returned their two-entry rankings, and each took steps
\* while the other was under way.
C16_Witness ==
  /\ frames[1].pc = "done" /\ frames[2].pc = "done"
  /\ frames[1].overlap /\ frames[2].overlap
  /\ frames[1].handler = "score_candidates"
  /\ frames[2].handler = "bias_score_candidates"
  /\ frames[1].req # frames[2].req
  /\ NamesOf(frames[1].result.ranking) = <<"B", "A">>
  /\ frames[2].result.kind = "ok"
  /\ NamesOf(frames[2].result.ranking) = <<"Unknown", "B">>

\* the candidate named "B" that rates every attribute of S one point above c
\* and every other attribute as c does
RaisedOn(c, S) ==
  [k \in DOMAIN c \cup S \cup {"name"} |->
     IF k = "name" THEN "B"
     ELSE IF k \in S THEN RatingOf(c, k) + 1 ELSE c[k]]

\* the sets of attributes that c can be raised on within the submitted ratings
Raisable(c) ==
  {S \in SUBSET Attrs : \A k \in S : RatingOf(c, k) + 1 \in RatingInputs}

\* 20 * weight, under the resolved profile, added up over the attributes of S
GainOn(S, role_type) ==
  LET w    == IntegerWeights[ResolvedRole(role_type)]
      g(i) == IF AttrOrder[i] \in S THEN w[i] ELSE 0
  IN  g(1) + g(2) + g(3) + g(4) + g(5)

\* the ranking of the candidate of the request together with candidate d
RankedWith(d) ==
  score_candidates(WEIGHTS, [request EXCEPT !.candidates = <<OnlyCandidate, d>>]).ranking

\* C21: raising one rating by a point, the other four fixed, raises the score
\* by 20 times the weight of that attribute, which is strictly positive; a
\* candidate at least as high on every attribute has the score of the other
\* plus these gains, never a lower one, and ranks first when it is higher on
\* some attribute.
C21_StrictlyMonotone ==
  Responded =>
    \A S \in Raisable(OnlyCandidate) :
      LET r == RankedWith(RaisedOn(OnlyCandidate, S))
          b == CHOOSE j \in 1..2 : r[j].name = "B"
      IN  /\ r[b].score = OnlyEntry.score + GainOn(S, request.role_type)
          /\ r[3 - b].score = OnlyEntry.score
          /\ r[b].score >= r[3 - b].score
          /\ S # {} => r[b].score > r[3 - b].score /\ b = 1
          /\ \A k \in Attrs : GainOn({k}, request.role_type) > 0

\* C21 witness: under operational a candidate with adaptability 2 scores 58;
\* the same candidate with adaptability 3 scores 60 and ranks first.
C21_Witness ==
  /\ Responded
  /\ request.role_type = "operational"
  /\ OnlyCandidate = [name |-> "A", adaptability |-> 2]
  /\ OnlyEntry.score = 58
  /\ RankedWith(RaisedOn(OnlyCandidate, {"adaptability"}))[1].name = "B"
  /\ RankedWith(RaisedOn(OnlyCandidate, {"adaptability"}))[1].score = 60

\* the five ratings of the candidate are one and the same value
AllEqual(c) == \A k, l \in Attrs : RatingOf(c, k) = RatingOf(c, l)

\* C22: the rating of top_strength is at least the rating of top_risk; the
\* two name the same attribute exactly when all five ratings are equal, and
\* then both are skill_match.
C22_StrengthAboveRisk ==
  Responded =>
    /\ OnlyEntry.top_strength \in Attrs /\ OnlyEntry.top_risk \in Attrs
    /\ RatingOf(OnlyCandidate, OnlyEntry.top_strength)
         >= RatingOf(OnlyCandidate, OnlyEntry.top_risk)
    /\ OnlyEntry.top_strength = OnlyEntry.top_risk <=> AllEqual(OnlyCandidate)
    /\ AllEqual(OnlyCandidate) =>
         OnlyEntry.top_strength = "skill_match" /\ OnlyEntry.top_risk = "skill_match"

\* C22 witness: ratings 2, 2, 4, 3 (left out), 4: top_strength is
\* execution_speed (rated 4) and top_risk skill_match (rated 2).
C22_Witness ==
  /\ Responded
  /\ OnlyCandidate = [name |-> "A", skill_match |-> 2, culture_fit |-> 2,
                      execution_speed |-> 4, adaptability |-> 4]
  /\ OnlyEntry.top_strength = "execution_speed"
  /\ OnlyEntry.top_risk = "skill_match"
  /\ ~AllEqual(OnlyCandidate)

\* some candidate block of the page holds a name
NameEntered == \E i \in 1..page.num : page.rows[i].name # ""

\* a dict with a non-empty name and the five ratings, each in 1..5
NamedAndRated(c) ==
  /\ DOMAIN c = Attrs \cup {"name"}
  /\ c["name"] # ""
  /\ \A k \in Attrs : c[k] \in 1..5

\* C23: the page posts a scoring request only when some block holds a name,
\* and every candidate of the request it posts (and of every request the
\* server gets) has a non-empty name and five ratings in 1..5; a press with
\* no name entered shows the warning and posts nothing.
C23_PagePostsNamedOnly ==
  /\ request # NoRequest =>
       /\ NameEntered
       /\ request.candidates # <<>>
       /\ \A j \in 1..Len(request.candidates) : NamedAndRated(request.candidates[j])
  /\ \A n \in 1..Len(log) : log[n].request = request
  /\ pc = "shown" /\ ~NameEntered =>
       /\ page.message = "warning"
       /\ request = NoRequest
       /\ log = <<>>
  /\ page.message = "warning" => ~NameEntered

\* C23 witness: of two blocks the first has no name and the second is B with
\* Skill Match 5; the server got the request with B alone.
C23_Witness ==
  /\ pc = "responded"
  /\ page.num = 2
  /\ page.rows[1].name = ""
  /\ page.rows[2] = [DefaultRow EXCEPT !.name = "B", !.skill_match = 5]
  /\ Len(log) = 1
  /\ log[1].request.candidates = <<[DefaultRow EXCEPT !.name = "B", !.skill_match = 5]>>
  /\ log[1].request.role_type = page.role_type

\* the BiasRequest has no field that is neither None nor empty
NoContent(body) == \A f \in BiasFields : f \notin DOMAIN body \/ body[f] = <<>>

\* C24: detect_bias with every field missing or empty returns the error
\* object "No content provided." and audit_decisions with an empty list
\* returns "No decisions provided.", both without a call of the external
\* model.
C24_EmptyInputNoCall ==
  Responded =>
    /\ request.endpoint = "/detect-bias" /\ NoContent(request.body) =>
         /\ response = [kind |-> "ok", body |-> [error |-> "No content provided."]]
         /\ Len(log) = 1 /\ log[1].outcome.kind = "none"
    /\ request.endpoint = "/audit-decisions" /\ Len(request.body.decisions) = 0 =>
         /\ response = [kind |-> "ok", body |-> [error |-> "No decisions provided."]]
         /\ Len(log) = 1 /\ log[1].outcome.kind = "none"

\* C24 witness: a BiasRequest whose job_description is the empty string and
\* whose other fields are None was answered with the error, without a call.
C24_Witness ==
  /\ Responded
  /\ request.endpoint = "/detect-bias"
  /\ DOMAIN request.body = {"job_description"}
  /\ request.body["job_description"] = <<>>
  /\ response.body = [error |-> "No content provided."]
  /\ log[1].outcome.kind = "none"

\* what the three handlers return for each reply of TextReplies, as Python
\* computes it from the text
ParsedBodies ==
  (Fence \o Chars("json\n{\"scoring_bias_risk\": \"low\"}\n") \o Fence
     :> [scoring_bias_risk |-> "low"])
  @@ (Chars(" {}\n") :> [k \in {} |-> ""])
  @@ (Fence \o Chars("\n{}\n") \o Fence :> [k \in {} |-> ""])
  @@ (Fence \o Chars("json{}") :> [k \in {} |-> ""])
  @@ (Fence \o Chars("{}") \o Fence \o Chars(" done") :> [k \in {} |-> ""])

UnparsedTexts ==
  (Chars("Looks fine.") :> Chars("Looks fine."))
  @@ (Fence \o Chars("json\nno\n") \o Fence :> Chars("\nno\n"))
  @@ (Fence :> <<>>)
  @@ (Chars("Here: ") \o Fence \o Chars("{}") \o Fence
        :> Chars("Here: ") \o Fence \o Chars("{}") \o Fence)
  @@ (Chars("json{}") :> Chars("json{}"))
  @@ (Chars(" no\n") :> Chars("no"))

\* C25: whenever the call of the external model returned text, each of the
\* three handlers returns (it never raises) the JSON value of the text with
\* the leading fence and the json tag behind it removed, or, where that text
\* is no JSON, the object with error "Could not parse response" and that
\* text under raw.
C25_ParsedOrErrorObject ==
  \A n \in 1..Len(log) :
    log[n].outcome.kind = "text" =>
      LET reply == log[n].outcome.text
          resp  == log[n].response
      IN  /\ log[n].handler \in {"analyse_problem", "detect_bias", "audit_decisions"}
          /\ resp.kind = "ok"
          /\ reply \in DOMAIN ParsedBodies \cup DOMAIN UnparsedTexts
          /\ reply \in DOMAIN ParsedBodies => resp.body = ParsedBodies[reply]
          /\ reply \in DOMAIN UnparsedTexts =>
               resp.body = [error |-> "Could not parse response",
                            raw |-> UnparsedTexts[reply]]

\* C25 witness: audit_decisions got a fenced reply that is no JSON and
\* returned the error object with the text between the fences, less the tag.
C25_Witness ==
  /\ Responded
  /\ request.endpoint = "/audit-decisions"
  /\ log[1].outcome.kind = "text"
  /\ log[1].outcome.text = Fence \o Chars("json\nno\n") \o Fence
  /\ response = [kind |-> "ok",
                 body |-> [error |-> "Could not parse response", raw |-> Chars("\nno\n")]]

====
